---- MODULE Spec2Model ----
(***************************************************************************)
(* A model of src/regexp/regexp-utils.cc (V8): the RegExp execution        *)
(* protocol layer.  RegExpUtils reads the shared last-match buffer,        *)
(* reads and writes a receiver's lastIndex, dispatches RegExpExec, decides *)
(* IsRegExp and steps a string index (AdvanceStringIndex).                 *)
(*                                                                         *)
(* State: the receiver `regexp`, the shared buffer `match_info`, and `ret`,*)
(* the record of the last operation: its inputs, what it did and what it   *)
(* returned.  Each operation of the file is one action.                    *)
(***************************************************************************)
EXTENDS Integers, Sequences, FiniteSets, TLC

VARIABLES regexp, match_info, ret

vars == <<regexp, match_info, ret>>

(***************************************************************************)
(* Bounds of the model.                                                    *)
(***************************************************************************)
\* Longest string handed to AdvanceStringIndex under SpecAdvance.
MaxLen == 3
\* Longest subject string of the last-match buffer.
MaxSubject == 2
\* Most capture groups (the whole match included) the buffer holds.
MaxGroups == 2
\* Largest small lastIndex from which SetAdvancedStringIndex still steps.
MaxIndex == 3

(***************************************************************************)
(* Strings: sequences of 16-bit code units.  Index i of the code is        *)
(* element i + 1 of the sequence.                                          *)
(***************************************************************************)
kLeadSurrogateStart == 55296
kLeadSurrogateEnd == 56319
kTrailSurrogateStart == 56320
kTrailSurrogateEnd == 57343

\* The code units the model's strings are made of: an ASCII letter, and the
\* values at and next to each end of the two surrogate ranges.
CodeUnits ==
    { 97,
      kLeadSurrogateStart - 1, kLeadSurrogateStart, kLeadSurrogateEnd,
      kTrailSurrogateStart, kTrailSurrogateEnd, kTrailSurrogateEnd + 1 }

StringsOver(units, n) == UNION { [1..k -> units] : k \in 0..n }

\* String::Get(index)
Get(string, index) == string[index + 1]

\* String::length()
length(string) == Len(string)

(***************************************************************************)
(* AdvanceStringIndex ( S, index, unicode ), for 0 <= index.               *)
(***************************************************************************)
\* Variant: the second code unit is not looked at.
AdvanceStringIndex_NoSecondCheck(string, index, unicode) ==
    IF unicode /\ index < length(string)
    THEN LET first == Get(string, index)
         IN  IF /\ first >= kLeadSurrogateStart
                /\ first <= kLeadSurrogateEnd
                /\ length(string) > index + 1
             THEN 2
             ELSE 1
    ELSE 1

AdvanceStringIndex(string, index, unicode) ==
    IF unicode /\ index < length(string)
    THEN LET first == Get(string, index)
         IN  IF /\ first >= kLeadSurrogateStart
                /\ first <= kLeadSurrogateEnd
                /\ length(string) > index + 1
             THEN LET second == Get(string, index + 1)
                  IN  IF /\ second >= kTrailSurrogateStart
                         /\ second <= kTrailSurrogateEnd
                      THEN 2
                      ELSE 1
             ELSE 1
    ELSE 1

\* A call of AdvanceStringIndex on a string of `strings`.
AdvanceStringIndexOp(strings) ==
    \E string \in strings, unicode \in BOOLEAN :
      \E index \in 0..(Len(string) + 1) :
        /\ ret' = [ op |-> "AdvanceStringIndex", string |-> string,
                    index |-> index, unicode |-> unicode,
                    val |-> AdvanceStringIndex(string, index, unicode) ]
        /\ UNCHANGED <<regexp, match_info>>

\* The call whose arguments ret holds (val = 0: not made yet) is made.
AdvanceStringIndexCall ==
    /\ ret.op = "AdvanceStringIndex"
    /\ ret.val = 0
    /\ ret' = [ret EXCEPT !.val = AdvanceStringIndex(ret.string, ret.index,
                                                     ret.unicode)]
    /\ UNCHANGED <<regexp, match_info>>

(***************************************************************************)
(* Numbers.  A JavaScript value that lastIndex can hold is a record        *)
(* [t, hi, lo]: for t = "num" the non-negative integer hi * LIMB + lo, for *)
(* t = "neg" the negative integer of that magnitude, for t = "obj" an      *)
(* object whose conversion to a number runs user code and gives            *)
(* hi * LIMB + lo.  Two limbs hold every integer up to 2^53 + 1 exactly.   *)
(***************************************************************************)
LIMB == 2^27

Num(hi, lo) == [t |-> "num", hi |-> hi, lo |-> lo]
Neg(hi, lo) == [t |-> "neg", hi |-> hi, lo |-> lo]
Obj(hi, lo) == [t |-> "obj", hi |-> hi, lo |-> lo]
Undefined == [t |-> "undefined", hi |-> 0, lo |-> 0]
NaN == [t |-> "nan", hi |-> 0, lo |-> 0]
Infinity == [t |-> "inf", hi |-> 0, lo |-> 0]

\* n + d for a number n >= 0 and a small d >= 0.
BigAdd(n, d) ==
    LET s == n.lo + d
    IN  IF s >= LIMB THEN Num(n.hi + 1, s - LIMB) ELSE Num(n.hi, s)

BigLE(a, b) == a.hi < b.hi \/ (a.hi = b.hi /\ a.lo <= b.lo)

\* The C++ int: 32 bits, two's complement.
kMaxInt == (2^30 - 1) + 2^30
kMinInt == (-kMaxInt) - 1

\* Smi::kMaxValue of the 64-bit build, where a Smi holds every int.
kSmiMaxValue == kMaxInt

\* 2^53 - 1, the largest result of ToLength.
kMaxSafeInteger == Num(2^26 - 1, LIMB - 1)

\* handle(Smi::FromInt(value), isolate): the number that an int is as a
\* JavaScript value.
SmiFromInt(value) ==
    IF value >= 0
    THEN Num(value \div LIMB, value % LIMB)
    ELSE LET m == -(value + 1)
             b == BigAdd(Num(m \div LIMB, m % LIMB), 1)
         IN  Neg(b.hi, b.lo)

\* Object::IsSmi() of a number ToLength returned.
IsSmi(v) ==
    /\ v.t = "num"
    /\ BigLE(v, SmiFromInt(kSmiMaxValue))

\* Smi::value() of a Smi.
SmiValue(v) == v.hi * LIMB + v.lo

\* Object::ToLength: the number the value converts to, clamped to
\* [0, 2^53 - 1]; undefined, NaN and every negative number give 0.
ToLength(v) ==
    CASE v.t \in {"undefined", "nan", "neg"} -> Num(0, 0)
      [] v.t = "inf" -> kMaxSafeInteger
      [] OTHER -> IF BigLE(v, kMaxSafeInteger) THEN Num(v.hi, v.lo)
                                               ELSE kMaxSafeInteger

\* What a read of an int the program never validly computed can give: the
\* values a wrapped INT_MAX + 1 and INT_MAX + 2 have, and other bit patterns.
UBInts == { kMinInt, kMinInt + 1, -1, 0, kMaxInt }

(***************************************************************************)
(* Receivers.  map is "initial" for a JSRegExp whose map is the regexp     *)
(* function's initial map, "modified" for a JSRegExp with any other map,   *)
(* "other" for a receiver that is no JSRegExp.  lastIndex is the value the *)
(* property holds; liAttr says what kind of property it is: "data"         *)
(* (writable), "readonly", "accessor" (a getter and a setter in user code  *)
(* over the same cell) or "absentNonExt" (no such property, and the object *)
(* is not extensible).  lastIndex of a JSRegExp is a non-configurable data *)
(* property, and a JSRegExp that is frozen no longer has the initial map.  *)
(***************************************************************************)
Receiver(map, liAttr, lastIndex) ==
    [map |-> map, liAttr |-> liAttr, lastIndex |-> lastIndex]

\* The values user code leaves in lastIndex.
LastIndexValues ==
    { Undefined, NaN, Infinity, Neg(0, 1), Obj(0, 1),
      SmiFromInt(kMaxInt - 1), SmiFromInt(kMaxInt),
      Num(16, 0), Num(32, 0), kMaxSafeInteger }
      \cup { Num(0, n) : n \in 0..MaxIndex }

Receivers ==
    { Receiver("initial", "data", v) : v \in LastIndexValues }
      \cup { Receiver("modified", a, v) :
               a \in {"data", "readonly"}, v \in LastIndexValues }
      \cup { Receiver("other", a, v) :
               a \in {"data", "readonly", "accessor"}, v \in LastIndexValues }
      \cup { Receiver("other", "absentNonExt", Undefined) }

\* recv->map() == isolate->regexp_function()->initial_map()
HasInitialRegExpMap(recv) == recv.map = "initial"

\* recv->IsJSRegExp()
IsJSRegExp(recv) == recv.map \in {"initial", "modified"}

\* What user code that runs inside an operation does to the receiver:
\* nothing, an assignment to lastIndex, freezing the receiver, giving it
\* another map (adding a property), or throwing.
Hook(k, m) == [k |-> k, m |-> m]
NoHook == Hook("none", Undefined)
Hooks ==
    { NoHook, Hook("throw", Undefined), Hook("freeze", Undefined),
      Hook("reshape", Undefined), Hook("write", Num(0, 2)),
      Hook("write", Num(16, 0)) }

ApplyHook(recv, hook) ==
    CASE hook.k = "write" /\ recv.liAttr \in {"data", "accessor"} ->
           [recv EXCEPT !.lastIndex = hook.m]
      [] hook.k = "freeze" /\ recv.liAttr = "data" ->
           [recv EXCEPT !.liAttr = "readonly",
                        !.map = IF @ = "initial" THEN "modified" ELSE @]
      [] hook.k = "reshape" /\ recv.map = "initial" ->
           [recv EXCEPT !.map = "modified"]
      [] OTHER -> recv

\* Object::GetProperty(recv, lastIndex_string): the value, and whether a
\* getter (user code) ran.
GetProperty(recv) ==
    [val |-> recv.lastIndex, userCode |-> recv.liAttr = "accessor"]

\* Object::SetProperty(recv, lastIndex_string, value, language_mode): a data
\* property is stored, a setter stores into its cell; a write that cannot be
\* made throws in STRICT mode and is dropped in SLOPPY mode.
SetProperty(recv, value, language_mode) ==
    IF recv.liAttr \in {"data", "accessor"}
    THEN [ok |-> TRUE, recv |-> [recv EXCEPT !.lastIndex = value],
          userCode |-> recv.liAttr = "accessor"]
    ELSE [ok |-> language_mode # "STRICT", recv |-> recv, userCode |-> FALSE]

\* RegExpUtils::SetLastIndex(isolate, recv, value)
\* Variant: the generic write is made in SLOPPY mode.
SetLastIndex_Sloppy(recv, value) ==
    IF HasInitialRegExpMap(recv)
    THEN [ok |-> TRUE, recv |-> [recv EXCEPT !.lastIndex = SmiFromInt(value)],
          userCode |-> FALSE, path |-> "fast"]
    ELSE LET w == SetProperty(recv, SmiFromInt(value), "SLOPPY")
         IN  [ok |-> w.ok, recv |-> w.recv, userCode |-> w.userCode,
              path |-> "generic"]

SetLastIndex(recv, value) ==
    IF HasInitialRegExpMap(recv)
    THEN [ok |-> TRUE, recv |-> [recv EXCEPT !.lastIndex = SmiFromInt(value)],
          userCode |-> FALSE, path |-> "fast"]
    ELSE LET w == SetProperty(recv, SmiFromInt(value), "STRICT")
         IN  [ok |-> w.ok, recv |-> w.recv, userCode |-> w.userCode,
              path |-> "generic"]

\* RegExpUtils::GetLastIndex(isolate, recv)
GetLastIndex(recv) ==
    IF HasInitialRegExpMap(recv)
    THEN [val |-> recv.lastIndex, userCode |-> FALSE, path |-> "fast"]
    ELSE LET g == GetProperty(recv)
         IN  [val |-> g.val, userCode |-> g.userCode, path |-> "generic"]

(***************************************************************************)
(* SetAdvancedStringIndex(isolate, regexp, string, unicode).  hookRead is  *)
(* what the getter of lastIndex does when there is one, hookCoerce what    *)
(* the conversion of the value to a number does when the value is an       *)
(* object.  The result is the set of outcomes: the cast of a number that   *)
(* is no Smi to Smi and the overflow of the int addition are undefined,    *)
(* and give any int (a build with DCHECKs aborts at the cast).             *)
(***************************************************************************)
SASIResult(outcome, recv, read, k, inc, new, ub, path) ==
    [ outcome |-> outcome, recv |-> recv, read |-> read, k |-> k,
      inc |-> inc, new |-> new, ub |-> ub, path |-> path ]

SetAdvancedStringIndex(recv, string, unicode, hookRead, hookCoerce) ==
    LET g == GetProperty(recv)
        r1 == IF g.userCode THEN ApplyHook(recv, hookRead) ELSE recv
        coerces == g.val.t = "obj"
        r2 == IF coerces THEN ApplyHook(r1, hookCoerce) ELSE r1
        k == ToLength(g.val)
        Write(new, inc, ub) ==
            LET w == SetLastIndex(r2, new)
            IN  SASIResult(IF w.ok THEN "ok" ELSE "exception", w.recv,
                           g.val, k, inc, new, ub, w.path)
    IN  IF g.userCode /\ hookRead.k = "throw"
        THEN { SASIResult("exception", recv, Undefined, Num(0, 0), 0, 0,
                          FALSE, "none") }
        ELSE IF coerces /\ hookCoerce.k = "throw"
        THEN { SASIResult("exception", r1, g.val, Num(0, 0), 0, 0,
                          FALSE, "none") }
        ELSE IF IsSmi(k)
        THEN LET last_index == SmiValue(k)
                 inc == AdvanceStringIndex(string, last_index, unicode)
             IN  IF last_index <= kMaxInt - inc
                 THEN { Write(last_index + inc, inc, FALSE) }
                 ELSE { Write(n, inc, TRUE) : n \in UBInts }
        ELSE { Write(n, 0, TRUE) : n \in UBInts }
               \cup { SASIResult("abort", r2, g.val, k, 0, 0, TRUE, "none") }

\* The strings SetAdvancedStringIndex steps over: with and without a
\* surrogate pair at index 0 or 1.
StepStrings ==
    { << >>, <<97>>, <<kLeadSurrogateStart, kTrailSurrogateEnd>>,
      <<97, kLeadSurrogateEnd, kTrailSurrogateStart>>,
      <<kLeadSurrogateStart, 97>> }

\* The ints SetLastIndex is called with.
SetValues == { 0, 2, kMaxInt }

\* Stepping stops at MaxIndex; the values at and above INT_MAX do not grow.
CanStep(v) ==
    LET k == ToLength(v)
    IN  BigLE(k, Num(0, MaxIndex)) \/ BigLE(SmiFromInt(kMaxInt - 1), k)

SetAdvancedStringIndexOp(strings) ==
    \E string \in strings, unicode \in BOOLEAN :
      \E hookRead \in IF regexp.liAttr = "accessor" THEN Hooks ELSE {NoHook},
         hookCoerce \in IF regexp.lastIndex.t = "obj" THEN Hooks
                        ELSE {NoHook} :
        /\ CanStep(regexp.lastIndex)
        /\ \E o \in SetAdvancedStringIndex(regexp, string, unicode,
                                           hookRead, hookCoerce) :
             /\ regexp' = o.recv
             /\ ret' = [ op |-> "SetAdvancedStringIndex", before |-> regexp,
                         string |-> string, unicode |-> unicode,
                         hookRead |-> hookRead, hookCoerce |-> hookCoerce,
                         res |-> o ]
        /\ UNCHANGED match_info

SetLastIndexOp ==
    \E value \in SetValues :
      LET w == SetLastIndex(regexp, value)
      IN  /\ regexp' = w.recv
          /\ ret' = [ op |-> "SetLastIndex", before |-> regexp,
                      value |-> value, res |-> w ]
          /\ UNCHANGED match_info

GetLastIndexOp ==
    /\ ret' = [ op |-> "GetLastIndex", before |-> regexp,
                res |-> GetLastIndex(regexp) ]
    /\ UNCHANGED <<regexp, match_info>>

\* User code between two calls of this layer: the receiver a later call is
\* given may have another shape or another lastIndex than the earlier one.
UserCodeOp ==
    \E hook \in Hooks :
      /\ hook.k \notin {"none", "throw"}
      /\ ApplyHook(regexp, hook) # regexp
      /\ regexp' = ApplyHook(regexp, hook)
      /\ ret' = [ op |-> "UserCode", before |-> regexp, hook |-> hook ]
      /\ UNCHANGED match_info

(***************************************************************************)
(* The last-match buffer: a JSObject whose elements are the capture count, *)
(* the subject, the input and then the capture offsets, two per group.     *)
(* It keeps its length: the offsets beyond the capture count are those an  *)
(* earlier match with more groups left there.                              *)
(***************************************************************************)
kLastCaptureCount == 0
kLastSubject == 1
kLastInput == 2
kFirstCapture == 3

MatchInfoIndices == 0..(kFirstCapture + 2 * MaxGroups - 1)

\* The subject strings: the prefixes of "abc...".
SubjectOfLength(n) == [i \in 1..n |-> 96 + i]
Subjects == { SubjectOfLength(n) : n \in 0..MaxSubject }

\* A pair of offsets: a span within a string of length n, or the pair of -1
\* of a group that did not participate.
Spans(n) == { <<s, e>> \in (0..n) \X (0..n) : s <= e }
OffsetPairs(n) == Spans(n) \cup { <<-1, -1>> }

MatchInfo(count, subject, input, captures) ==
    [ i \in MatchInfoIndices |->
        CASE i = kLastCaptureCount -> count
          [] i = kLastSubject -> subject
          [] i = kLastInput -> input
          [] OTHER -> captures[i - kFirstCapture] ]

\* The buffers the matching engine leaves: an even capture count >= 2, the
\* whole match a span of the subject, every other group of the pattern a span
\* or unmatched, and older pairs beyond the count.
ValidCaptures(count, subject) ==
    { c \in [0..(2 * MaxGroups - 1) -> -1..MaxSubject] :
        /\ <<c[0], c[1]>> \in Spans(Len(subject))
        /\ \A g \in 1..(MaxGroups - 1) :
             <<c[2 * g], c[2 * g + 1]>> \in
                IF 2 * g < count THEN OffsetPairs(Len(subject))
                                 ELSE OffsetPairs(MaxSubject) }

ValidMatchInfos ==
    UNION { { MatchInfo(2 * n, subject, input, c) :
                c \in ValidCaptures(2 * n, subject),
                input \in {subject, SubjectOfLength(0)} } :
            n \in 1..MaxGroups, subject \in Subjects }

\* The buffer before the first match.
InitialMatchInfo ==
    MatchInfo(2, SubjectOfLength(0), SubjectOfLength(0),
              [i \in 0..(2 * MaxGroups - 1) |-> IF i < 2 THEN 0 ELSE -1])

\* RegExpUtils::GetLastMatchField
GetLastMatchField(info, index) == info[index]

\* RegExpUtils::SetLastMatchField
\* Variant: the element before `index` is written.
SetLastMatchField_OffByOne(info, index, value) ==
    [info EXCEPT ![index - 1] = value]

SetLastMatchField(info, index, value) == [info EXCEPT ![index] = value]

\* RegExpUtils::GetLastMatchNumberOfCaptures
GetLastMatchNumberOfCaptures(info) ==
    GetLastMatchField(info, kLastCaptureCount)

\* RegExpUtils::GetLastMatchSubject
GetLastMatchSubject(info) == GetLastMatchField(info, kLastSubject)

\* RegExpUtils::GetLastMatchInput
GetLastMatchInput(info) == GetLastMatchField(info, kLastInput)

\* RegExpUtils::GetLastMatchCapture
GetLastMatchCapture(info, i) == GetLastMatchField(info, kFirstCapture + i)

\* Factory::NewSubString(str, begin, end)
NewSubString(str, begin, end) == SubSeq(str, begin + 1, end)

empty_string == << >>

\* RegExpUtils::GenericCaptureGetter: the string returned and *ok.  The
\* callers' capture numbers are small: capture * 2 stays within int.
\* Variant: the group number is used as the offset index.
GenericCaptureGetter_NoDoubling(info, capture) ==
    LET index == capture
    IN  IF index >= GetLastMatchNumberOfCaptures(info)
        THEN [str |-> empty_string, ok |-> FALSE]
        ELSE LET match_start == GetLastMatchCapture(info, index)
                 match_end == GetLastMatchCapture(info, index + 1)
             IN  IF match_start = -1 \/ match_end = -1
                 THEN [str |-> empty_string, ok |-> FALSE]
                 ELSE [str |-> NewSubString(GetLastMatchSubject(info),
                                            match_start, match_end),
                       ok |-> TRUE]

GenericCaptureGetter(info, capture) ==
    LET index == capture * 2
    IN  IF index >= GetLastMatchNumberOfCaptures(info)
        THEN [str |-> empty_string, ok |-> FALSE]
        ELSE LET match_start == GetLastMatchCapture(info, index)
                 match_end == GetLastMatchCapture(info, index + 1)
             IN  IF match_start = -1 \/ match_end = -1
                 THEN [str |-> empty_string, ok |-> FALSE]
                 ELSE [str |-> NewSubString(GetLastMatchSubject(info),
                                            match_start, match_end),
                       ok |-> TRUE]

GenericCaptureGetterOp ==
    \E capture \in 0..MaxGroups :
      /\ ret' = [ op |-> "GenericCaptureGetter", capture |-> capture,
                  res |-> GenericCaptureGetter(match_info, capture) ]
      /\ UNCHANGED <<regexp, match_info>>

GetLastMatchNumberOfCapturesOp ==
    /\ ret' = [ op |-> "GetLastMatchNumberOfCaptures",
                val |-> GetLastMatchNumberOfCaptures(match_info) ]
    /\ UNCHANGED <<regexp, match_info>>

GetLastMatchSubjectOp ==
    /\ ret' = [ op |-> "GetLastMatchSubject",
                val |-> GetLastMatchSubject(match_info) ]
    /\ UNCHANGED <<regexp, match_info>>

GetLastMatchInputOp ==
    /\ ret' = [ op |-> "GetLastMatchInput",
                val |-> GetLastMatchInput(match_info) ]
    /\ UNCHANGED <<regexp, match_info>>

GetLastMatchCaptureOp ==
    \E i \in 0..(2 * MaxGroups - 1) :
      /\ ret' = [ op |-> "GetLastMatchCapture", i |-> i,
                  val |-> GetLastMatchCapture(match_info, i) ]
      /\ UNCHANGED <<regexp, match_info>>

\* A call of SetLastMatchField that writes `value` at `index`: the writes
\* made on the buffer keep it one the engine could have left.
SetLastMatchFieldOp(indices) ==
    \E index \in indices :
      \E value \in IF index \in {kLastSubject, kLastInput} THEN Subjects
                   ELSE -1..(2 * MaxGroups) :
        /\ SetLastMatchField(match_info, index, value) \in ValidMatchInfos
        /\ SetLastMatchField(match_info, index, value) # match_info
        /\ match_info' = SetLastMatchField(match_info, index, value)
        /\ ret' = [ op |-> "SetLastMatchField", index |-> index,
                    value |-> value ]
        /\ UNCHANGED regexp

(***************************************************************************)
(* RegExpExec ( R, S ) with an optional exec method.  Values are named by  *)
(* their kind.  An exec value is "undefined", a user function "userfn",    *)
(* the built-in RegExp.prototype.exec "builtin", or not callable ("object",*)
(* "number").                                                              *)
(***************************************************************************)
ExecValues == {"undefined", "userfn", "builtin", "object", "number"}

\* The kinds of value a call returns.
ValueKinds ==
    {"object", "function", "null", "undefined", "number", "string", "boolean"}

\* Object::IsCallable()
IsCallable(v) == v \in {"userfn", "builtin"}

\* Object::IsJSReceiver()
IsJSReceiver(v) == v \in {"object", "function"}

\* Object::IsNull()
IsNull(v) == v = "null"

\* RegExpUtils::IsBuiltinExec: a JSFunction whose code is the builtin
\* Builtins::kRegExpPrototypeExec.
IsBuiltinExec(exec) ==
    IF exec \notin {"userfn", "builtin"} THEN FALSE ELSE exec = "builtin"

\* What a run of the matching engine does: r is "match", "nomatch" or
\* "throws", info the buffer a match leaves, li whether the regexp is one
\* whose lastIndex the engine sets (global or sticky).
Engine(r, info, li) == [r |-> r, info |-> info, li |-> li]
NoEngine == Engine("none", InitialMatchInfo, FALSE)

\* What a call of a user function does: the kind of value it returns (or
\* "throws"), and what it did to the receiver.
Call(val, hook) == [val |-> val, hook |-> hook]
NoCall == Call("none", NoHook)

ExecResult(outcome, value, recv, info, looked, called, fallback, matched) ==
    [ outcome |-> outcome, value |-> value, recv |-> recv, info |-> info,
      looked |-> looked, called |-> called, fallback |-> fallback,
      matched |-> matched ]

\* The built-in RegExp.prototype.exec (isolate->regexp_exec_function())
\* called on recv: it throws on a receiver that is no JSRegExp, and else
\* runs the matching engine, which on a match overwrites the last-match
\* buffer.
RegExpPrototypeExec(recv, info, engine, looked, called, fallback) ==
    IF ~IsJSRegExp(recv) \/ engine.r = "throws"
    THEN ExecResult("exception", "none", recv, info, looked, called,
                    fallback, FALSE)
    ELSE IF engine.r = "match"
    THEN ExecResult("value", "object",
                    IF engine.li /\ recv.liAttr = "data"
                    THEN [recv EXCEPT !.lastIndex =
                            SmiFromInt(engine.info[kFirstCapture + 1])]
                    ELSE recv,
                    engine.info, looked, called, fallback, TRUE)
    ELSE ExecResult("value", "null",
                    IF engine.li /\ recv.liAttr = "data"
                    THEN [recv EXCEPT !.lastIndex = SmiFromInt(0)]
                    ELSE recv,
                    info, looked, called, fallback, FALSE)

\* Execution::Call(isolate, exec, regexp, argc, argv) and the check of its
\* result, lines 123-139.
\* Variant: a null result is refused too.
CallExec_NullRejected(recv, info, exec, call, engine, looked) ==
    IF exec = "builtin"
    THEN RegExpPrototypeExec(recv, info, engine, looked, "builtin", FALSE)
    ELSE IF call.val = "throws"
    THEN ExecResult("exception", "none", ApplyHook(recv, call.hook), info,
                    looked, "userfn", FALSE, FALSE)
    ELSE IF ~IsJSReceiver(call.val)
    THEN ExecResult("InvalidExecResult", "none", ApplyHook(recv, call.hook),
                    info, looked, "userfn", FALSE, FALSE)
    ELSE ExecResult("value", call.val, ApplyHook(recv, call.hook), info,
                    looked, "userfn", FALSE, FALSE)

CallExec(recv, info, exec, call, engine, looked) ==
    IF exec = "builtin"
    THEN RegExpPrototypeExec(recv, info, engine, looked, "builtin", FALSE)
    ELSE IF call.val = "throws"
    THEN ExecResult("exception", "none", ApplyHook(recv, call.hook), info,
                    looked, "userfn", FALSE, FALSE)
    ELSE IF ~IsJSReceiver(call.val) /\ ~IsNull(call.val)
    THEN ExecResult("InvalidExecResult", "none", ApplyHook(recv, call.hook),
                    info, looked, "userfn", FALSE, FALSE)
    ELSE ExecResult("value", call.val, ApplyHook(recv, call.hook), info,
                    looked, "userfn", FALSE, FALSE)

\* RegExpUtils::RegExpExec(isolate, regexp, string, exec).  prop is what the
\* receiver's exec property holds ("throws": its lookup throws).
\* Variant: the receiver is not tested before the built-in exec is called.
RegExpExec_NoReceiverCheck(recv, info, exec, prop, call, engine) ==
    IF exec = "undefined" /\ prop = "throws"
    THEN ExecResult("exception", "none", recv, info, TRUE, "none", FALSE,
                    FALSE)
    ELSE LET looked == exec = "undefined"
             resolved == IF looked THEN prop ELSE exec
         IN  IF IsCallable(resolved)
             THEN CallExec(recv, info, resolved, call, engine, looked)
             ELSE RegExpPrototypeExec(recv, info, engine, looked, "none",
                                      TRUE)

RegExpExec(recv, info, exec, prop, call, engine) ==
    IF exec = "undefined" /\ prop = "throws"
    THEN ExecResult("exception", "none", recv, info, TRUE, "none", FALSE,
                    FALSE)
    ELSE LET looked == exec = "undefined"
             resolved == IF looked THEN prop ELSE exec
         IN  IF IsCallable(resolved)
             THEN CallExec(recv, info, resolved, call, engine, looked)
             ELSE IF ~IsJSRegExp(recv)
             THEN ExecResult("IncompatibleReceiver", "none", recv, info,
                             looked, "none", FALSE, FALSE)
             ELSE RegExpPrototypeExec(recv, info, engine, looked, "none",
                                      TRUE)

\* The calls of a user exec method: every kind of result, a throw, and two
\* that also change the receiver.
Calls ==
    { Call(v, NoHook) : v \in ValueKinds \cup {"throws"} }
      \cup { Call("object", Hook("write", Num(0, 2))),
             Call("number", Hook("reshape", Undefined)) }

\* The runs of the engine that leave one of `infos` on a match.
Engines(infos) ==
    { Engine("match", i, li) : i \in infos, li \in BOOLEAN }
      \cup { Engine(r, InitialMatchInfo, li) :
               r \in {"nomatch", "throws"}, li \in BOOLEAN }

\* A call of RegExpExec.  The inputs a path does not read are fixed.
RegExpExecOp(infos) ==
    \E exec \in ExecValues :
      \E prop \in IF exec = "undefined" THEN ExecValues \cup {"throws"}
                  ELSE {"undefined"} :
        LET resolved == IF exec = "undefined" THEN prop ELSE exec
            runsEngine == \/ resolved = "builtin"
                          \/ (~IsCallable(resolved) /\ resolved # "throws")
        IN  \E call \in IF resolved = "userfn" THEN Calls ELSE {NoCall} :
              \E engine \in IF runsEngine /\ IsJSRegExp(regexp)
                            THEN { e \in Engines(infos) :
                                     e.li => regexp.liAttr = "data" }
                            ELSE {NoEngine} :
                LET res == RegExpExec(regexp, match_info, exec, prop, call,
                                      engine)
                IN  /\ regexp' = res.recv
                    /\ match_info' = res.info
                    /\ ret' = [ op |-> "RegExpExec", before |-> regexp,
                                exec |-> exec, prop |-> prop, call |-> call,
                                engine |-> engine, res |-> res ]

IsBuiltinExecOp ==
    \E exec \in ExecValues :
      /\ ret' = [ op |-> "IsBuiltinExec", exec |-> exec,
                  val |-> IsBuiltinExec(exec) ]
      /\ UNCHANGED <<regexp, match_info>>

(***************************************************************************)
(* IsRegExp.  An object is [isReceiver, map, match]: match is the kind of  *)
(* value its @@match property holds ("throws": the lookup throws).         *)
(***************************************************************************)
MatchValues ==
    { "throws", "undefined", "true", "false", "zero", "one", "nan",
      "emptystr", "str", "null", "object" }

Object(isReceiver, map, match) ==
    [isReceiver |-> isReceiver, map |-> map, match |-> match]

\* A primitive, and the receivers of each map with each @@match.
Objects ==
    { Object(FALSE, "none", "undefined") }
      \cup { Object(TRUE, m, v) :
               m \in {"initial", "modified", "other"}, v \in MatchValues }

\* Object::BooleanValue(): false for false, 0, NaN, the empty string, null
\* and undefined.
BooleanValue(v) ==
    v \notin {"false", "zero", "nan", "emptystr", "null", "undefined"}

IsRegExpResult(outcome, val, looked) ==
    [outcome |-> outcome, val |-> val, looked |-> looked]

\* RegExpUtils::IsRegExp(isolate, object)
\* Variant: no fast path for the initial map.
IsRegExp_NoFastPath(object) ==
    IF ~object.isReceiver
    THEN IsRegExpResult("value", FALSE, FALSE)
    ELSE IF object.match = "throws"
    THEN IsRegExpResult("exception", FALSE, TRUE)
    ELSE IF object.match # "undefined"
    THEN IsRegExpResult("value", BooleanValue(object.match), TRUE)
    ELSE IsRegExpResult("value", IsJSRegExp(object), TRUE)

IsRegExp(object) ==
    IF ~object.isReceiver
    THEN IsRegExpResult("value", FALSE, FALSE)
    ELSE IF HasInitialRegExpMap(object)
    THEN IsRegExpResult("value", TRUE, FALSE)
    ELSE IF object.match = "throws"
    THEN IsRegExpResult("exception", FALSE, TRUE)
    ELSE IF object.match # "undefined"
    THEN IsRegExpResult("value", BooleanValue(object.match), TRUE)
    ELSE IsRegExpResult("value", IsJSRegExp(object), TRUE)

IsRegExpOp ==
    \E object \in Objects :
      /\ ret' = [ op |-> "IsRegExp", object |-> object,
                  res |-> IsRegExp(object) ]
      /\ UNCHANGED <<regexp, match_info>>

(***************************************************************************)
(* Specifications.                                                         *)
(***************************************************************************)
NoRet == [op |-> "none"]

\* AdvanceStringIndex on every string of at most MaxLen code units, at every
\* index up to one past its end, in both modes.
InitAdvance ==
    /\ regexp = Receiver("initial", "data", Num(0, 0))
    /\ match_info = InitialMatchInfo
    /\ ret \in { [ op |-> "AdvanceStringIndex", string |-> string,
                   index |-> index, unicode |-> unicode, val |-> 0 ] :
                 string \in StringsOver(CodeUnits, MaxLen),
                 index \in 0..(MaxLen + 1), unicode \in BOOLEAN }

NextAdvance == AdvanceStringIndexCall

SpecAdvance == InitAdvance /\ [][NextAdvance]_vars

\* The readers of the last-match buffer on every buffer the engine leaves.
InitCapture ==
    /\ regexp = Receiver("initial", "data", Num(0, 0))
    /\ match_info \in ValidMatchInfos
    /\ ret = NoRet

NextCapture ==
    \/ GenericCaptureGetterOp
    \/ GetLastMatchNumberOfCapturesOp
    \/ GetLastMatchSubjectOp
    \/ GetLastMatchInputOp
    \/ GetLastMatchCaptureOp

SpecCapture == InitCapture /\ [][NextCapture]_vars

\* The buffers the engine leaves in the specifications that run it.
EngineInfos ==
    { MatchInfo(2, SubjectOfLength(1), SubjectOfLength(1),
                [i \in 0..(2 * MaxGroups - 1) |->
                   IF i = 0 THEN 0 ELSE IF i = 1 THEN 1 ELSE -1]),
      MatchInfo(4, SubjectOfLength(2), SubjectOfLength(2),
                [i \in 0..(2 * MaxGroups - 1) |->
                   IF i \in {0, 2} THEN 0 ELSE IF i \in {1, 3} THEN 2
                   ELSE -1]) }

\* RegExpExec and IsRegExp on a receiver of each map.
InitDispatch ==
    /\ regexp \in { Receiver(m, "data", Num(0, 0)) :
                      m \in {"initial", "modified", "other"} }
    /\ match_info = InitialMatchInfo
    /\ ret = NoRet

NextDispatch ==
    \/ RegExpExecOp(EngineInfos)
    \/ IsRegExpOp
    \/ IsBuiltinExecOp

SpecDispatch == InitDispatch /\ [][NextDispatch]_vars

\* The lastIndex operations on every receiver.
InitLastIndex ==
    /\ regexp \in Receivers
    /\ match_info = InitialMatchInfo
    /\ ret = NoRet

NextLastIndex ==
    \/ SetAdvancedStringIndexOp(StepStrings)
    \/ SetLastIndexOp
    \/ GetLastIndexOp
    \/ UserCodeOp

SpecLastIndex == InitLastIndex /\ [][NextLastIndex]_vars

\* Every operation of the layer.
Init ==
    /\ regexp \in { Receiver(m, "data", Num(0, 0)) :
                      m \in {"initial", "other"} }
    /\ match_info = InitialMatchInfo
    /\ ret = NoRet

Next ==
    \/ AdvanceStringIndexOp({ <<97>>, <<kLeadSurrogateStart,
                                       kTrailSurrogateStart>> })
    \/ GenericCaptureGetterOp
    \/ GetLastMatchNumberOfCapturesOp
    \/ GetLastMatchSubjectOp
    \/ GetLastMatchInputOp
    \/ GetLastMatchCaptureOp
    \/ SetLastMatchFieldOp({kLastInput})
    \/ RegExpExecOp(EngineInfos)
    \/ IsBuiltinExecOp
    \/ IsRegExpOp
    \/ SetAdvancedStringIndexOp({ <<97>>, <<kLeadSurrogateStart,
                                           kTrailSurrogateStart>> })
    \/ SetLastIndexOp
    \/ GetLastIndexOp
    \/ UserCodeOp

Spec == Init /\ [][Next]_vars

(***************************************************************************)
(* Properties of the operations.                                           *)
(***************************************************************************)

\* C1: AdvanceStringIndex(s, i, unicode) is 1 or 2, and it is 2 exactly when
\* unicode is set, i and i + 1 are both indices of s, s[i] is in
\* 0xD800..0xDBFF and s[i + 1] is in 0xDC00..0xDFFF.
C1_AdvanceIndexIsPairStep ==
    (ret.op = "AdvanceStringIndex" /\ ret.val # 0) =>
       LET s == ret.string
           i == ret.index
       IN  /\ ret.val \in {1, 2}
           /\ (ret.val = 2) <=>
                (/\ ret.unicode
                 /\ i < Len(s)
                 /\ i + 1 < Len(s)
                 /\ s[i + 1] \in 55296..56319
                 /\ s[i + 2] \in 56320..57343)

\* C1 witness: a step of 2 over a pair that starts at index 1.
C1_Witness ==
    /\ ret.op = "AdvanceStringIndex"
    /\ ret.val = 2
    /\ ret.index = 1
    /\ Len(ret.string) = 3

\* C2: GenericCaptureGetter(i) gives (empty, false) when i * 2 is at or past
\* the capture count, (empty, false) when the start or the end of pair i is
\* -1, and else (the subject from start to end, true).
C2_CaptureSubstring ==
    (ret.op = "GenericCaptureGetter") =>
       LET i == ret.capture
           count == match_info[0]
           subject == match_info[1]
           start == match_info[3 + 2 * i]
           end == match_info[3 + 2 * i + 1]
       IN  IF i * 2 >= count
           THEN ret.res = [str |-> << >>, ok |-> FALSE]
           ELSE IF start = -1 \/ end = -1
           THEN ret.res = [str |-> << >>, ok |-> FALSE]
           ELSE ret.res = [str |-> [j \in 1..(end - start) |->
                                      subject[start + j]],
                           ok |-> TRUE]

\* C2 witness: group 1 matched a non-empty span that does not start the
\* subject.
C2_Witness ==
    /\ ret.op = "GenericCaptureGetter"
    /\ ret.capture = 1
    /\ ret.res.ok
    /\ ret.res.str = <<98>>

\* The value the call of the resolved exec method returned, when it returned.
ExecCalled == ret.op = "RegExpExec" /\ ret.res.called # "none"

ExecCallReturned ==
    /\ ExecCalled
    /\ IF ret.res.called = "userfn"
       THEN ret.call.val # "throws"
       ELSE ret.before.map # "other" /\ ret.engine.r # "throws"

ExecCallValue ==
    IF ret.res.called = "userfn" THEN ret.call.val
    ELSE IF ret.engine.r = "match" THEN "object" ELSE "null"

\* The matching engine ran during the call of RegExpExec.
EngineRan ==
    \/ ret.res.fallback /\ ret.before.map # "other"
    \/ ret.res.called = "builtin" /\ ret.before.map # "other"

C4_IncompatibleReceiver ==
    (/\ ret.op = "RegExpExec"
     /\ ret.exec = "undefined"
     /\ ret.prop \in {"undefined", "object", "number"}
     /\ ret.before.map = "other") =>
       /\ ret.res.outcome = "IncompatibleReceiver"
       /\ ~ret.res.fallback
       /\ ret.res.called = "none"
       /\ ~ret.res.matched
       /\ ret.res.recv = ret.before

\* C4 witness: such a call was made.
C4_Witness ==
    /\ ret.op = "RegExpExec"
    /\ ret.exec = "undefined"
    /\ ret.prop = "object"
    /\ ret.before.map = "other"
    /\ ret.res.outcome = "IncompatibleReceiver"

\* C6: IsRegExp is false for a primitive and true for an object with the
\* initial regexp map, both without a lookup of @@match; else @@match is
\* looked up, an error of the lookup propagates, a defined value gives its
\* boolean value and undefined gives whether the object is a JSRegExp.
C6_IsRegExpOrder ==
    (ret.op = "IsRegExp") =>
       LET o == ret.object
           r == ret.res
           falsy == {"false", "zero", "nan", "emptystr", "null"}
       IN  IF ~o.isReceiver
           THEN r = [outcome |-> "value", val |-> FALSE, looked |-> FALSE]
           ELSE IF o.map = "initial"
           THEN r = [outcome |-> "value", val |-> TRUE, looked |-> FALSE]
           ELSE /\ r.looked
                /\ o.match = "throws" => r.outcome = "exception"
                /\ o.match \notin {"throws", "undefined"} =>
                     r.outcome = "value" /\ (r.val <=> o.match \notin falsy)
                /\ o.match = "undefined" =>
                     r.outcome = "value" /\ (r.val <=> o.map = "modified")

\* C6 witness: a JSRegExp with a modified map whose @@match is 0.
C6_Witness ==
    /\ ret.op = "IsRegExp"
    /\ ret.object.map = "modified"
    /\ ret.object.match = "zero"
    /\ ret.res.looked
    /\ ~ret.res.val

\* C8 (as amended): the buffer changes only in a call of SetLastMatchField,
\* which changes the one field it is given and nothing else, and in a call
\* of RegExpExec whose run of the engine matched.
C8_MatchInfoFrame ==
    [][ match_info' # match_info =>
          \/ /\ ret'.op = "SetLastMatchField"
             /\ match_info' = [match_info EXCEPT ![ret'.index] = ret'.value]
          \/ /\ ret'.op = "RegExpExec"
             /\ ret'.res.matched ]_vars

\* C8 witness: SetLastMatchField has written the input field.
C8_Witness ==
    /\ ret.op = "SetLastMatchField"
    /\ ret.index = 2
    /\ match_info[2] = ret.value
    /\ match_info[2] # match_info[1]

\* C8 as stated: the buffer changes only by the engine on a match.
C8_Original ==
    [][ match_info' # match_info =>
          ret'.op = "RegExpExec" /\ ret'.res.matched ]_vars

\* C9: SetLastIndex on a receiver with the initial map succeeds, stores the
\* value and runs no user code; on any other receiver it is a generic write,
\* which fails, leaving the receiver as it was, when lastIndex cannot be
\* written, and stores the value otherwise.  The map decides at each call.
C9_SetLastIndexPaths ==
    (ret.op = "SetLastIndex") =>
       LET b == ret.before
           w == ret.res
           v == [t |-> "num", hi |-> ret.value \div (2^27),
                 lo |-> ret.value % (2^27)]
       IN  IF b.map = "initial"
           THEN /\ w.ok /\ w.path = "fast" /\ ~w.userCode
                /\ regexp = [b EXCEPT !.lastIndex = v]
           ELSE /\ w.path = "generic"
                /\ b.liAttr \in {"readonly", "absentNonExt"} =>
                     ~w.ok /\ regexp = b
                /\ b.liAttr \in {"data", "accessor"} =>
                     w.ok /\ regexp = [b EXCEPT !.lastIndex = v]

\* C9 witness: a write to a read-only lastIndex of a JSRegExp that no longer
\* has the initial map failed.
C9_Witness ==
    /\ ret.op = "SetLastIndex"
    /\ ret.before.map = "modified"
    /\ ret.before.liAttr = "readonly"
    /\ ~ret.res.ok

\* The increment the claims give for a coerced lastIndex k.
ClaimedIncrement(string, k, unicode) ==
    IF k.hi = 0 /\ k.lo < Len(string)
    THEN IF /\ unicode
            /\ k.lo + 1 < Len(string)
            /\ string[k.lo + 1] \in 55296..56319
            /\ string[k.lo + 2] \in 56320..57343
         THEN 2 ELSE 1
    ELSE 1

SASIDone == ret.op = "SetAdvancedStringIndex" /\ ret.res.outcome = "ok"

\* C5 as stated: after SetAdvancedStringIndex on a receiver whose lastIndex
\* is k, lastIndex is k + AdvanceIndex(string, k, unicode).
C5_Original ==
    SASIDone =>
       regexp.lastIndex =
          BigAdd(ret.res.k, ClaimedIncrement(ret.string, ret.res.k,
                                             ret.unicode))

\* C7 as stated: when the read or the coercion ran user code that wrote
\* lastIndex = m, lastIndex is in the end k + increment, not m and not
\* m + increment.
C7_Original ==
    (/\ SASIDone
     /\ \/ ret.before.liAttr = "accessor" /\ ret.hookRead.k = "write"
        \/ ret.res.read.t = "obj" /\ ret.hookCoerce.k = "write") =>
       \E d \in {1, 2} :
          /\ d = ClaimedIncrement(ret.string, ret.res.k, ret.unicode)
          /\ regexp.lastIndex = BigAdd(ret.res.k, d)

\* C10 as stated: the coerced lastIndex L is in [0, 2^53 - 1] and the value
\* written is L + increment, a non-negative number, for every L.
C10_Original ==
    SASIDone =>
       /\ ret.res.k.t = "num"
       /\ BigLE(ret.res.k, [t |-> "num", hi |-> 2^26 - 1, lo |-> 2^27 - 1])
       /\ regexp.lastIndex.t = "num"
       /\ \E d \in {1, 2} : regexp.lastIndex = BigAdd(ret.res.k, d)

====
